---------------------------- MODULE Spec2Model ----------------------------
(***************************************************************************)
(* A model of the frameshift crate: scale-tagged durations (TimeDelta) and *)
(* instants (Epoch), the scale conversion graph, and the Celestrak Earth   *)
(* orientation provider with its interpolated lookups.                     *)
(*                                                                         *)
(* Representation notes.                                                   *)
(*  - An Option is a sequence: None is <<>>, Some(v) is <<v>>.             *)
(*  - TLC integers are 32 bits wide, an i64 second count is not: it is     *)
(*    held as two limbs [hi, lo] with value hi * SECS_PER_DAY + lo and     *)
(*    0 <= lo < SECS_PER_DAY, so that the Julian-day reference (about      *)
(*    -2.09e11 s from 1900) is represented exactly.                        *)
(*  - chrono::TimeDelta is modelled as chrono stores it: whole seconds     *)
(*    plus a sub-second count 0 <= nanos < NANOS_PER_SEC (so a negative    *)
(*    duration with a fraction has secs rounded toward minus infinity),    *)
(*    and num_seconds / subsec_nanos give the truncated-toward-zero view.  *)
(*  - An f64 is an exact rational [n, d] in lowest terms, d > 0; d = 0     *)
(*    stands for the non-finite results of a division by zero.  All        *)
(*    modelled inputs are dyadic, so the float operations on them are      *)
(*    exact.                                                               *)
(*  - Every modelled value lies far inside chrono's representable range    *)
(*    (about +/- 292 million years), so checked arithmetic never           *)
(*    overflows in the model.                                              *)
(***************************************************************************)
EXTENDS Integers, Sequences, FiniteSets, TLC

VARIABLES
    call,       \* the last operation performed and its arguments
    delta,      \* SpecDelta: the Option<TimeDelta> under test
    raw,        \* SpecDelta: Some(the pair delta.to_raw() returned)
    rebuilt,    \* SpecDelta: the Option that TimeDelta::new gave for raw
    entries,    \* the CelestrakProvider's table
    input,      \* the records from_entries was given
    res,        \* the Option the last provider or conversion call returned
    instant,    \* SpecEpoch: the Epoch under test
    provider,   \* SpecEpoch: the provider handed to to_scale_with
    back        \* SpecEpoch: the Option the conversion back returned

deltaVars == <<delta, raw, rebuilt>>

provVars == <<entries, input, res>>

epochVars == <<instant, provider, back>>

vars == <<call, delta, raw, rebuilt, entries, input, res, instant, provider, back>>

None == <<>>

Some(v) == <<v>>

IsSome(o) == Len(o) = 1

Unwrap(o) == o[1]

\* the `?` operator: the early return of None, or the rest of the function
\* applied to the value
AndThen(o, Rest(_)) == IF IsSome(o) THEN Rest(Unwrap(o)) ELSE None

(***************************************************************************)
(* Program constants                                                       *)
(***************************************************************************)
NANOS_PER_SEC == 1000000000

NANOS_PER_MILLI == 1000000

SECS_PER_DAY == 86400

(***************************************************************************)
(* i64 second counts, in two limbs                                         *)
(***************************************************************************)
I64(n) == [hi |-> n \div SECS_PER_DAY, lo |-> n % SECS_PER_DAY]

I64Add(a, b) ==
    LET s == a.lo + b.lo
    IN  [hi |-> a.hi + b.hi + (s \div SECS_PER_DAY), lo |-> s % SECS_PER_DAY]

I64Neg(a) ==
    IF a.lo = 0 THEN [hi |-> -a.hi, lo |-> 0]
    ELSE [hi |-> -a.hi - 1, lo |-> SECS_PER_DAY - a.lo]

I64Sub(a, b) == I64Add(a, I64Neg(b))

I64Lt(a, b) == a.hi < b.hi \/ (a.hi = b.hi /\ a.lo < b.lo)

I64IsNeg(a) == a.hi < 0

\* the value as a TLC integer; used only where it is small
I64ToInt(a) == a.hi * SECS_PER_DAY + a.lo

(***************************************************************************)
(* chrono::TimeDelta                                                       *)
(***************************************************************************)
\* chrono::TimeDelta::new(secs, nanos): rejects nanos >= 1_000_000_000
ChronoNew(secs, nanos) ==
    IF nanos >= NANOS_PER_SEC THEN None
    ELSE Some([secs |-> secs, nanos |-> nanos])

\* chrono::TimeDelta::num_seconds: whole seconds, truncated toward zero
ChronoNumSeconds(d) ==
    IF I64IsNeg(d.secs) /\ d.nanos > 0 THEN I64Add(d.secs, I64(1)) ELSE d.secs

\* chrono::TimeDelta::subsec_nanos: the signed sub-second rest
ChronoSubsecNanos(d) ==
    IF I64IsNeg(d.secs) /\ d.nanos > 0 THEN d.nanos - NANOS_PER_SEC ELSE d.nanos

\* impl Add for chrono::TimeDelta
ChronoAdd(a, b) ==
    LET n == a.nanos + b.nanos
        s == I64Add(a.secs, b.secs)
    IN  IF n >= NANOS_PER_SEC
        THEN [secs |-> I64Add(s, I64(1)), nanos |-> n - NANOS_PER_SEC]
        ELSE [secs |-> s, nanos |-> n]

\* impl Sub for chrono::TimeDelta
ChronoSub(a, b) ==
    LET n == a.nanos - b.nanos
        s == I64Sub(a.secs, b.secs)
    IN  IF n < 0
        THEN [secs |-> I64Sub(s, I64(1)), nanos |-> n + NANOS_PER_SEC]
        ELSE [secs |-> s, nanos |-> n]

\* impl Neg for chrono::TimeDelta
ChronoNeg(a) ==
    IF a.nanos = 0 THEN [secs |-> I64Neg(a.secs), nanos |-> 0]
    ELSE [secs |-> I64Sub(I64Neg(a.secs), I64(1)),
          nanos |-> NANOS_PER_SEC - a.nanos]

\* derived Ord of chrono::TimeDelta: by secs, then by nanos
ChronoLt(a, b) ==
    I64Lt(a.secs, b.secs) \/ (a.secs = b.secs /\ a.nanos < b.nanos)

(***************************************************************************)
(* TimeDelta<S>  (time/time_delta.rs)                                      *)
(***************************************************************************)
TimeDelta_from_chrono(d) == d

TimeDelta_to_chrono(d) == d

\* a constructor that reduces an out-of-range sub-second count instead of
\* rejecting it
TimeDelta_new_Wrap(secs, nanos) ==
    Some(TimeDelta_from_chrono([secs |-> secs, nanos |-> nanos % NANOS_PER_SEC]))

TimeDelta_new(secs, nanos) ==
    LET r == ChronoNew(secs, nanos)
    IN  IF IsSome(r) THEN Some(TimeDelta_from_chrono(Unwrap(r))) ELSE None

\* to_raw that lifts a negative sub-second part into range but forgets to
\* take the second from secs
TimeDelta_to_raw_NoBorrow(d) ==
    LET secs == ChronoNumSeconds(d)
        nanos == ChronoSubsecNanos(d)
    IN  IF nanos < 0
        THEN [secs |-> secs, nanos |-> nanos + NANOS_PER_SEC]
        ELSE [secs |-> secs, nanos |-> nanos]

\* (the cast `nanos as u32` acts on a value that is already >= 0 here)
TimeDelta_to_raw(d) ==
    LET secs == ChronoNumSeconds(d)
        nanos == ChronoSubsecNanos(d)
    IN  IF nanos < 0
        THEN [secs |-> I64Sub(secs, I64(1)), nanos |-> nanos + NANOS_PER_SEC]
        ELSE [secs |-> secs, nanos |-> nanos]

TimeDelta_add(a, b) == TimeDelta_from_chrono(ChronoAdd(a, b))

TimeDelta_sub(a, b) == TimeDelta_from_chrono(ChronoSub(a, b))

TimeDelta_neg(a) == TimeDelta_from_chrono(ChronoNeg(a))

TimeDelta_lt(a, b) == ChronoLt(a, b)

TimeDelta_default == TimeDelta_from_chrono([secs |-> I64(0), nanos |-> 0])

(***************************************************************************)
(* f64, as exact rationals                                                 *)
(***************************************************************************)
RECURSIVE Gcd(_, _)
Gcd(a, b) == IF b = 0 THEN a ELSE Gcd(b, a % b)

Abs(n) == IF n < 0 THEN -n ELSE n

Sgn(n) == IF n < 0 THEN -1 ELSE IF n > 0 THEN 1 ELSE 0

\* n / d in lowest terms; d = 0 gives +inf, -inf or NaN by the sign of n
F64(n, d) ==
    IF d = 0 THEN [n |-> Sgn(n), d |-> 0]
    ELSE LET g == Gcd(Abs(n), Abs(d))
         IN  [n |-> Sgn(d) * (n \div g), d |-> Abs(d) \div g]

F64OfInt(n) == [n |-> n, d |-> 1]

F64NaN == [n |-> 0, d |-> 0]

F64IsFinite(a) == a.d # 0

F64Add(a, b) ==
    IF F64IsFinite(a) /\ F64IsFinite(b) THEN F64(a.n * b.d + b.n * a.d, a.d * b.d)
    ELSE IF a = F64NaN \/ b = F64NaN THEN F64NaN
    ELSE IF ~ F64IsFinite(a) /\ ~ F64IsFinite(b)
         THEN (IF a.n = b.n THEN a ELSE F64NaN)
    ELSE IF F64IsFinite(a) THEN b ELSE a

F64Neg(a) == [n |-> -a.n, d |-> a.d]

F64Sub(a, b) == F64Add(a, F64Neg(b))

F64Mul(a, b) ==
    IF F64IsFinite(a) /\ F64IsFinite(b) THEN F64(a.n * b.n, a.d * b.d)
    ELSE IF a = F64NaN \/ b = F64NaN THEN F64NaN
    ELSE [n |-> Sgn(a.n) * Sgn(b.n), d |-> 0]

F64Div(a, b) ==
    IF F64IsFinite(a) /\ F64IsFinite(b) THEN F64(a.n * b.d, a.d * b.n)
    ELSE IF a = F64NaN \/ b = F64NaN THEN F64NaN
    ELSE IF ~ F64IsFinite(a) /\ ~ F64IsFinite(b) THEN F64NaN
    ELSE IF F64IsFinite(a) THEN F64OfInt(0)
    ELSE [n |-> a.n * (IF b.n < 0 THEN -1 ELSE 1), d |-> 0]

\* f64::floor of a finite value
F64Floor(a) == a.n \div a.d

\* secs as f64 + nanos as f64 / NANOS_PER_SEC as f64
Raw_to_seconds(r) ==
    F64Add(F64OfInt(I64ToInt(r.secs)),
           F64Div(F64OfInt(r.nanos), F64OfInt(NANOS_PER_SEC)))

TimeDelta_to_seconds(d) == Raw_to_seconds(TimeDelta_to_raw(d))

\* for a finite argument; (seconds - secs) * 10^9, floored, is computed
\* without leaving 32 bits
TimeDelta_from_seconds(seconds) ==
    LET secs == F64Floor(seconds)
        fn == seconds.n - secs * seconds.d
        nanos == fn * (NANOS_PER_SEC \div seconds.d)
                 + (fn * (NANOS_PER_SEC % seconds.d)) \div seconds.d
    IN  Unwrap(TimeDelta_new(I64(secs), nanos))

(***************************************************************************)
(* Epoch<S>  (time/epoch_type.rs); the scale S is kept as a tag            *)
(***************************************************************************)
Epoch_from_frameshift(S, d) == [scale |-> S, delta |-> d]

Epoch_to_frameshift(e) == e.delta

Epoch_transmute(e, T) == Epoch_from_frameshift(T, Epoch_to_frameshift(e))

Epoch_add(e, d) ==
    Epoch_from_frameshift(e.scale, TimeDelta_add(Epoch_to_frameshift(e), d))

Epoch_sub_delta(e, d) ==
    Epoch_from_frameshift(e.scale, TimeDelta_sub(Epoch_to_frameshift(e), d))

\* Epoch - Epoch
Epoch_sub(a, b) == TimeDelta_sub(a.delta, b.delta)

Epoch_lt(a, b) == TimeDelta_lt(a.delta, b.delta)

Epoch_gt(a, b) == Epoch_lt(b, a)

(***************************************************************************)
(* chrono::NaiveDateTime and the reference names (time/name.rs)            *)
(*                                                                         *)
(* A NaiveDateTime is [date, secs, frac]: the Julian day number of its     *)
(* calendar day, the second of the day and the nanosecond of the second.   *)
(***************************************************************************)
\* the Julian day number of a proleptic Gregorian date
GregorianDay(year, month, day) ==
    LET a == (14 - month) \div 12
        y == year + 4800 - a
        m == month + 12 * a - 3
    IN  day + ((153 * m + 2) \div 5) + 365 * y + (y \div 4) - (y \div 100)
        + (y \div 400) - 32045

\* the Julian day number of a proleptic Julian date
JulianDay(year, month, day) ==
    LET a == (14 - month) \div 12
        y == year + 4800 - a
        m == month + 12 * a - 3
    IN  day + ((153 * m + 2) \div 5) + 365 * y + (y \div 4) - 32083

name_gregorian(year, month, day, hour, min, sec) ==
    [date |-> GregorianDay(year, month, day),
     secs |-> hour * 3600 + min * 60 + sec,
     frac |-> 0]

\* the Julian date converted to the Gregorian calendar names the same day
name_julian(year, month, day, hour, min, sec) ==
    [date |-> JulianDay(year, month, day),
     secs |-> hour * 3600 + min * 60 + sec,
     frac |-> 0]

FRAMESHIFT_0 == name_gregorian(1900, 1, 1, 0, 0, 0)

JULIAN_DAY_0 == name_julian(-4712, 1, 1, 12, 0, 0)

MODIFIED_JULIAN_DAY_0 == name_gregorian(1858, 11, 17, 0, 0, 0)

\* NaiveDateTime::signed_duration_since, also NaiveDateTime - NaiveDateTime:
\* the days between the dates plus the difference of the times of day
NaiveDateTime_signed_duration_since(a, b) ==
    LET days == [secs |-> [hi |-> a.date - b.date, lo |-> 0], nanos |-> 0]
        secs == a.secs - b.secs
        frac == a.frac - b.frac
        time == [secs |-> I64(secs + (frac \div NANOS_PER_SEC)),
                 nanos |-> frac % NANOS_PER_SEC]
    IN  ChronoAdd(days, time)

\* NaiveDateTime + TimeDelta: the time of day advanced by the truncated
\* (num_seconds, subsec_nanos) view, the whole days carried into the date
NaiveDateTime_add(dt, rhs) ==
    LET frac0 == dt.frac + ChronoSubsecNanos(rhs)
        secs0 == I64Add(I64(dt.secs), ChronoNumSeconds(rhs))
        frac == IF frac0 < 0 THEN frac0 + NANOS_PER_SEC
                ELSE IF frac0 >= NANOS_PER_SEC THEN frac0 - NANOS_PER_SEC
                ELSE frac0
        secs == IF frac0 < 0 THEN I64Sub(secs0, I64(1))
                ELSE IF frac0 >= NANOS_PER_SEC THEN I64Add(secs0, I64(1))
                ELSE secs0
    IN  [date |-> dt.date + secs.hi, secs |-> secs.lo, frac |-> frac]

\* a to_name that drops the sub-second part of the instant
Epoch_to_name_WholeSeconds(e) ==
    NaiveDateTime_add(FRAMESHIFT_0,
                      [secs |-> TimeDelta_to_chrono(e.delta).secs, nanos |-> 0])

Epoch_from_name_delta(S, name, d) ==
    Epoch_from_frameshift(S,
        TimeDelta_add(
            TimeDelta_from_chrono(NaiveDateTime_signed_duration_since(name, FRAMESHIFT_0)),
            d))

Epoch_to_name_delta(e, name) ==
    TimeDelta_sub(e.delta,
        TimeDelta_from_chrono(NaiveDateTime_signed_duration_since(name, FRAMESHIFT_0)))

Epoch_from_name(S, name) ==
    Epoch_from_frameshift(S,
        TimeDelta_from_chrono(NaiveDateTime_signed_duration_since(name, FRAMESHIFT_0)))

Epoch_to_name(e) == NaiveDateTime_add(FRAMESHIFT_0, TimeDelta_to_chrono(e.delta))

Epoch_from_julian_day(S, d) == Epoch_from_name_delta(S, JULIAN_DAY_0, d)

Epoch_to_julian_day(e) == Epoch_to_name_delta(e, JULIAN_DAY_0)

Epoch_from_modified_julian_day(S, d) ==
    Epoch_from_name_delta(S, MODIFIED_JULIAN_DAY_0, d)

Epoch_to_modified_julian_day(e) == Epoch_to_name_delta(e, MODIFIED_JULIAN_DAY_0)

(***************************************************************************)
(* CelestrakProvider  (provider/celestrak.rs)                              *)
(***************************************************************************)
Type_merge_KeepSelf(self, other) == self

Type_merge(self, other) ==
    IF self = "Observed"
    THEN (IF other = "Observed" THEN "Observed" ELSE "Predicted")
    ELSE "Predicted"

Entry_time_tai(e) ==
    Epoch_add(Epoch_transmute(e.time_utc, "TAI"),
              Unwrap(TimeDelta_new(I64(e.tai_utc), 0)))

Entry_time_ut1(e) ==
    Epoch_add(Epoch_transmute(e.time_utc, "UT1"),
              TimeDelta_from_seconds(e.ut1_utc))

\* the weight g1 of the later record in lerp
Lerp_g1(self, other, t) ==
    F64Div(TimeDelta_to_seconds(t),
           TimeDelta_to_seconds(Epoch_sub(other.time_utc, self.time_utc)))

Lerp_g0(g1) == F64Sub(F64OfInt(1), g1)

\* g0 * a + g1 * b
Lerp_mix(g0, g1, a, b) == F64Add(F64Mul(g0, a), F64Mul(g1, b))

\* the record built from the two weights
Lerp_fields(self, other, g0, g1) ==
    [tai_utc |-> self.tai_utc,
     time_utc |-> self.time_utc,
     x |-> Lerp_mix(g0, g1, self.x, other.x),
     y |-> Lerp_mix(g0, g1, self.y, other.y),
     ut1_utc |-> Lerp_mix(g0, g1, self.ut1_utc, other.ut1_utc),
     lod |-> Lerp_mix(g0, g1, self.lod, other.lod),
     dpsi |-> Lerp_mix(g0, g1, self.dpsi, other.dpsi),
     deps |-> Lerp_mix(g0, g1, self.deps, other.deps),
     dx |-> Lerp_mix(g0, g1, self.dx, other.dx),
     dy |-> Lerp_mix(g0, g1, self.dy, other.dy),
     data_type |-> Type_merge(self.data_type, other.data_type)]

Lerp_with(self, other, g1) == Lerp_fields(self, other, Lerp_g0(g1), g1)

\* a lerp that takes the leap offset of the later record
Entry_lerp_LaterLeap(self, other, t) ==
    [Lerp_with(self, other, Lerp_g1(self, other, t)) EXCEPT !.tai_utc = other.tai_utc]

Entry_lerp(self, other, t) == Lerp_with(self, other, Lerp_g1(self, other, t))

\* Iterator::position: the first (0-based) index whose element satisfies P
Position(seq, P(_)) ==
    LET hits == {i \in 1 .. Len(seq) : P(seq[i])}
    IN  IF hits = {} THEN None
        ELSE Some((CHOOSE i \in hits : \A j \in hits : i <= j) - 1)

\* entries[i] for a 0-based i
At(seq, i) == seq[i + 1]

\* the stable insertion of e into a sequence sorted by time_utc
SortInsert(sorted, e) ==
    LET keep == {i \in 1 .. Len(sorted) : ~ Epoch_lt(e.time_utc, sorted[i].time_utc)}
        k == Cardinality(keep)
    IN  SubSeq(sorted, 1, k) \o <<e>> \o SubSeq(sorted, k + 1, Len(sorted))

\* slice::sort_by_key(|e| e.time_utc): the stable sort
RECURSIVE SortByTimeUtc(_)
SortByTimeUtc(seq) ==
    IF seq = <<>> THEN <<>>
    ELSE SortInsert(SortByTimeUtc(SubSeq(seq, 1, Len(seq) - 1)), seq[Len(seq)])

\* a constructor that keeps the records in the order given
from_entries_Unsorted(es) == es

from_entries(es) == SortByTimeUtc(es)

\* a lookup that answers with the first record before the table starts
get_utc_NoFirstCheck(es, t) ==
    AndThen(Position(es, LAMBDA e : Epoch_gt(e.time_utc, t)),
            LAMBDA idx :
                IF idx = 0 THEN Some(At(es, idx))
                ELSE Some(Entry_lerp(At(es, idx - 1), At(es, idx),
                                     Epoch_sub(t, At(es, idx).time_utc))))

get_utc(es, t) ==
    AndThen(Position(es, LAMBDA e : Epoch_gt(e.time_utc, t)),
            LAMBDA idx :
                IF idx = 0 THEN None
                ELSE Some(Entry_lerp(At(es, idx - 1), At(es, idx),
                                     Epoch_sub(t, At(es, idx).time_utc))))

get_tai(es, t) ==
    AndThen(Position(es, LAMBDA e : Epoch_gt(Entry_time_tai(e), t)),
            LAMBDA idx :
                IF idx = 0 THEN None
                ELSE Some(Entry_lerp(At(es, idx - 1), At(es, idx),
                                     Epoch_sub(t, Entry_time_tai(At(es, idx))))))

get_ut1(es, t) ==
    AndThen(Position(es, LAMBDA e : Epoch_gt(Entry_time_ut1(e), t)),
            LAMBDA idx :
                IF idx = 0 THEN None
                ELSE Some(Entry_lerp(At(es, idx - 1), At(es, idx),
                                     Epoch_sub(t, Entry_time_ut1(At(es, idx))))))

\* impl Provider for CelestrakProvider
Celestrak_tai_utc_for_utc(es, epoch) ==
    AndThen(get_utc(es, epoch), LAMBDA r : TimeDelta_new(I64(r.tai_utc), 0))

\* the leap offset for an atomic instant, looked up as if it were civil
Celestrak_tai_utc_for_tai_ByCivil(es, epoch) ==
    AndThen(get_utc(es, Epoch_transmute(epoch, "UTC")),
            LAMBDA r : TimeDelta_new(I64(r.tai_utc), 0))

Celestrak_tai_utc_for_tai(es, epoch) ==
    AndThen(get_tai(es, epoch), LAMBDA r : TimeDelta_new(I64(r.tai_utc), 0))

(***************************************************************************)
(* Providers  (provider/mod.rs)                                            *)
(***************************************************************************)
EmptyProvider == [kind |-> "Empty"]

CelestrakProvider(es) == [kind |-> "Celestrak", entries |-> es]

Provider_tai_utc_for_utc(p, epoch) ==
    IF p.kind = "Empty" THEN None
    ELSE Celestrak_tai_utc_for_utc(p.entries, epoch)

Provider_tai_utc_for_tai(p, epoch) ==
    IF p.kind = "Empty" THEN None
    ELSE Celestrak_tai_utc_for_tai(p.entries, epoch)

(***************************************************************************)
(* The scale graph  (time/scale.rs)                                        *)
(***************************************************************************)
Scales == {"TAI", "TT", "GPS", "UTC"}

\* const fn time_delta: TimeDelta::new, or a panic at compile time
time_delta(secs, nanos) == Unwrap(TimeDelta_new(I64(secs), nanos))

TT_TAI_OFFSET == time_delta(32, 184 * NANOS_PER_MILLI)

GPS_TAI_OFFSET == time_delta(-19, 0)

\* the identity written as a conversion to the atomic scale and back that
\* forgets the way back
Identity_to_scale_with_Shifted(e, p) == Some(Epoch_add(e, GPS_TAI_OFFSET))

\* impl<S> ToScaleWith<S> for Epoch<S>
Identity_to_scale_with(e, p) == Some(e)

TAI_to_TT_with(e, p) == Some(Epoch_add(Epoch_transmute(e, "TT"), TT_TAI_OFFSET))

\* the way back from TT that subtracts only the whole seconds of the offset
TT_to_TAI_with_WholeSeconds(e, p) ==
    Some(Epoch_transmute(Epoch_sub_delta(e, time_delta(32, 0)), "TAI"))

TT_to_TAI_with(e, p) ==
    Some(Epoch_transmute(Epoch_sub_delta(e, TT_TAI_OFFSET), "TAI"))

\* a hop to GPS that applies the fixed offset only when the provider is empty
TAI_to_GPS_with_ByProvider(e, p) ==
    IF p.kind = "Empty" THEN Some(Epoch_add(Epoch_transmute(e, "GPS"), GPS_TAI_OFFSET))
    ELSE Some(Epoch_transmute(e, "GPS"))

TAI_to_GPS_with(e, p) == Some(Epoch_add(Epoch_transmute(e, "GPS"), GPS_TAI_OFFSET))

GPS_to_TAI_with(e, p) ==
    Some(Epoch_transmute(Epoch_sub_delta(e, GPS_TAI_OFFSET), "TAI"))

TAI_to_UTC_with(e, p) ==
    AndThen(Provider_tai_utc_for_tai(p, e),
            LAMBDA tai_utc :
                Some(Epoch_transmute(Epoch_sub_delta(e, tai_utc), "UTC")))

\* the civil instant taken to TAI with the sign of the leap offset reversed
UTC_to_TAI_with_Subtract(e, p) ==
    AndThen(Provider_tai_utc_for_utc(p, e),
            LAMBDA tai_utc :
                Some(Epoch_sub_delta(Epoch_transmute(e, "TAI"), tai_utc)))

UTC_to_TAI_with(e, p) ==
    AndThen(Provider_tai_utc_for_utc(p, e),
            LAMBDA tai_utc :
                Some(Epoch_add(Epoch_transmute(e, "TAI"), tai_utc)))

\* the impls written out by hand: the identity and the hops from and to TAI
Direct_to_scale_with(e, T, p) ==
    IF e.scale = T THEN Identity_to_scale_with(e, p)
    ELSE IF e.scale = "TAI" /\ T = "TT" THEN TAI_to_TT_with(e, p)
    ELSE IF e.scale = "TT" /\ T = "TAI" THEN TT_to_TAI_with(e, p)
    ELSE IF e.scale = "TAI" /\ T = "GPS" THEN TAI_to_GPS_with(e, p)
    ELSE IF e.scale = "GPS" /\ T = "TAI" THEN GPS_to_TAI_with(e, p)
    ELSE IF e.scale = "TAI" /\ T = "UTC" THEN TAI_to_UTC_with(e, p)
    ELSE UTC_to_TAI_with(e, p)

IsDirect(S, T) == S = T \/ S = "TAI" \/ T = "TAI"

\* a conversion that relabels the instant where it should go through TAI
to_scale_with_NoHub(e, T, p) ==
    IF IsDirect(e.scale, T) THEN Direct_to_scale_with(e, T, p)
    ELSE Some(Epoch_transmute(e, T))

\* ToScaleWith::to_scale_with; the pairs that are not direct come from
\* impl_to_via!(ToScaleWith, Start, TAI, End)
to_scale_with(e, T, p) ==
    IF IsDirect(e.scale, T) THEN Direct_to_scale_with(e, T, p)
    ELSE AndThen(Direct_to_scale_with(e, "TAI", p),
                 LAMBDA middle : Direct_to_scale_with(middle, T, p))

\* the pairs for which ToScale is implemented
HasToScale(S, T) == S = T \/ (S # "UTC" /\ T # "UTC")

\* ToScale::to_scale: the default method for the identity and the hops from
\* and to TAI, impl_to_via!(ToScale, Start, TAI, End) for TT <-> GPS
to_scale(e, T) ==
    IF IsDirect(e.scale, T) THEN Unwrap(to_scale_with(e, T, EmptyProvider))
    ELSE LET middle == Unwrap(to_scale_with(e, "TAI", EmptyProvider))
         IN  Unwrap(to_scale_with(middle, T, EmptyProvider))

(***************************************************************************)
(* SpecDelta: a TimeDelta value built, combined, taken apart and rebuilt   *)
(***************************************************************************)
MaxSecs == 3

\* second counts handed to TimeDelta::new
SecsIn == (-MaxSecs) .. MaxSecs

\* sub-second counts handed to TimeDelta::new: in range, the two edges of
\* the range, and out of range (u32)
NanosIn == {0, 1, 184 * NANOS_PER_MILLI, 500 * NANOS_PER_MILLI,
            NANOS_PER_SEC - 1, NANOS_PER_SEC, NANOS_PER_SEC + 1,
            2 * NANOS_PER_SEC}

NoCall == [op |-> "none"]

InitDelta ==
    /\ call = NoCall
    /\ delta = Some(TimeDelta_default)
    /\ raw = None
    /\ rebuilt = None
    /\ entries = <<>>
    /\ input = <<>>
    /\ res = None
    /\ instant = Epoch_from_frameshift("TAI", TimeDelta_default)
    /\ provider = EmptyProvider
    /\ back = None

\* TimeDelta::new(secs, nanos)
DeltaNew(secs, nanos) ==
    /\ call' = [op |-> "new", secs |-> secs, nanos |-> nanos]
    /\ delta' = TimeDelta_new(I64(secs), nanos)
    /\ raw' = None
    /\ rebuilt' = None
    /\ UNCHANGED <<provVars, epochVars>>

\* delta + other, for a freshly built delta and any valid other
DeltaAdd(secs, nanos) ==
    LET other == TimeDelta_new(I64(secs), nanos)
    IN  /\ call.op = "new"
        /\ IsSome(delta)
        /\ IsSome(other)
        /\ call' = [op |-> "add"]
        /\ delta' = Some(TimeDelta_add(Unwrap(delta), Unwrap(other)))
        /\ raw' = None
        /\ rebuilt' = None
        /\ UNCHANGED <<provVars, epochVars>>
    /\ UNCHANGED <<provVars, epochVars>>

\* delta - other
DeltaSub(secs, nanos) ==
    LET other == TimeDelta_new(I64(secs), nanos)
    IN  /\ call.op = "new"
        /\ IsSome(delta)
        /\ IsSome(other)
        /\ call' = [op |-> "sub"]
        /\ delta' = Some(TimeDelta_sub(Unwrap(delta), Unwrap(other)))
        /\ raw' = None
        /\ rebuilt' = None
        /\ UNCHANGED <<provVars, epochVars>>
    /\ UNCHANGED <<provVars, epochVars>>

\* -delta
DeltaNeg ==
    /\ call.op \in {"new", "add", "sub"}
    /\ IsSome(delta)
    /\ call' = [op |-> "neg"]
    /\ delta' = Some(TimeDelta_neg(Unwrap(delta)))
    /\ raw' = None
    /\ rebuilt' = None
    /\ UNCHANGED <<provVars, epochVars>>

\* delta.to_raw()
DeltaToRaw ==
    /\ IsSome(delta)
    /\ call' = [op |-> "to_raw"]
    /\ raw' = Some(TimeDelta_to_raw(Unwrap(delta)))
    /\ rebuilt' = None
    /\ UNCHANGED delta
    /\ UNCHANGED <<provVars, epochVars>>

\* TimeDelta::new(s, n) with (s, n) the pair to_raw returned
DeltaFromRaw ==
    /\ IsSome(raw)
    /\ call' = [op |-> "from_raw"]
    /\ rebuilt' = TimeDelta_new(Unwrap(raw).secs, Unwrap(raw).nanos)
    /\ UNCHANGED <<delta, raw>>
    /\ UNCHANGED <<provVars, epochVars>>

NextDelta ==
    \/ \E secs \in SecsIn, nanos \in NanosIn : DeltaNew(secs, nanos)
    \/ \E secs \in SecsIn, nanos \in NanosIn : DeltaAdd(secs, nanos)
    \/ \E secs \in SecsIn, nanos \in NanosIn : DeltaSub(secs, nanos)
    \/ DeltaNeg
    \/ DeltaToRaw
    \/ DeltaFromRaw

SpecDelta == InitDelta /\ [][NextDelta]_vars

(***************************************************************************)
(* Claims about TimeDelta                                                  *)
(***************************************************************************)
\* C5: for every TimeDelta d, rebuilding it from its raw pair succeeds and
\* gives d back: with (s, n) = d.to_raw(), TimeDelta::new(s, n) = Some(d).
C5_RawRoundTrip ==
    call.op = "from_raw" =>
        /\ IsSome(rebuilt)
        /\ Unwrap(rebuilt) = Unwrap(delta)

\* a negative duration with a sub-second part was taken apart and rebuilt
C5_Witness ==
    /\ call.op = "from_raw"
    /\ I64IsNeg(Unwrap(delta).secs)
    /\ Unwrap(delta).nanos > 0
    /\ IsSome(rebuilt)

\* C6: to_raw returns (secs, nanos) with 0 <= nanos < 10^9 and
\* secs * 10^9 + nanos equal to d's signed total of nanoseconds
\* (num_seconds * 10^9 + subsec_nanos); when the signed sub-second part is
\* negative, secs is num_seconds - 1 and nanos is subsec_nanos + 10^9.
C6_RawNormalised ==
    IsSome(raw) =>
        LET d == Unwrap(delta)
            r == Unwrap(raw)
            num == ChronoNumSeconds(d)
            sub == ChronoSubsecNanos(d)
        IN  /\ 0 <= r.nanos
            /\ r.nanos < NANOS_PER_SEC
            /\ I64ToInt(I64Sub(r.secs, num)) * NANOS_PER_SEC + (r.nanos - sub) = 0
            /\ sub < 0 => /\ r.secs = I64Sub(num, I64(1))
                          /\ r.nanos = sub + NANOS_PER_SEC

\* to_raw acted on a duration whose signed sub-second part is negative
C6_Witness ==
    /\ IsSome(raw)
    /\ ChronoSubsecNanos(Unwrap(delta)) < 0
    /\ Unwrap(raw).nanos > 0

\* C7: TimeDelta::new(secs, nanos) is absent whenever nanos >= 10^9, and
\* present for every in-range nanos (with a representable secs).
C7_NewRejectsNanos ==
    call.op = "new" =>
        /\ call.nanos >= NANOS_PER_SEC => delta = None
        /\ call.nanos < NANOS_PER_SEC =>
               delta = Some([secs |-> I64(call.secs), nanos |-> call.nanos])

\* new was called with the first out-of-range sub-second count
C7_Witness ==
    /\ call.op = "new"
    /\ call.nanos = NANOS_PER_SEC
    /\ delta = None

(***************************************************************************)
(* Spec: a CelestrakProvider built by from_entries, then looked up         *)
(***************************************************************************)
MaxEntries == 3

\* an instant of scale S, h half-seconds after the reference instant
EpochOfHalves(S, h) ==
    Epoch_from_frameshift(S,
        Unwrap(TimeDelta_new(I64(h \div 2), (h % 2) * (NANOS_PER_SEC \div 2))))

Types == {"Observed", "Predicted"}

\* a record at `time` seconds with leap offset `dat`; the field values and
\* the provenance flag alternate with time + dat, so that equal and different
\* flags, and rising and falling values, all occur between neighbours
MkEntry(time, dat) ==
    LET u == (time + dat) % 2
        v == 2 * time + u
    IN  [time_utc |-> EpochOfHalves("UTC", 2 * time),
         x |-> F64OfInt(v),
         y |-> F64OfInt(v + 1),
         ut1_utc |-> F64(u, 2),
         lod |-> F64OfInt(-v),
         dpsi |-> F64OfInt(2 * v),
         deps |-> F64(v, 2),
         dx |-> F64(v, 4),
         dy |-> F64OfInt(3 * v),
         tai_utc |-> dat,
         data_type |-> IF u = 0 THEN "Observed" ELSE "Predicted"]

EntrySet == {MkEntry(time, dat) : time \in {0, 1, 2}, dat \in {10, 11}}

\* the record vectors handed to from_entries, in any order, duplicates included
Inputs == UNION {[1 .. n -> EntrySet] : n \in 0 .. MaxEntries}

UtcQueries == {EpochOfHalves("UTC", h) : h \in -1 .. 5}

TaiQueries == {EpochOfHalves("TAI", h) : h \in 19 .. 27}

Ut1Queries == {EpochOfHalves("UT1", h) : h \in -1 .. 6}

Init ==
    /\ \E in \in Inputs :
          /\ input = in
          /\ entries = from_entries(in)
    /\ call = NoCall
    /\ res = None
    /\ delta = None
    /\ raw = None
    /\ rebuilt = None
    /\ instant = Epoch_from_frameshift("TAI", TimeDelta_default)
    /\ provider = EmptyProvider
    /\ back = None

\* The provider is immutable once built (every lookup takes &self), so a
\* lookup's result does not depend on the lookups before it: each behaviour
\* builds one provider and performs one lookup on it.
GetUtc(t) ==
    /\ call = NoCall
    /\ call' = [op |-> "get_utc", t |-> t]
    /\ res' = get_utc(entries, t)
    /\ UNCHANGED <<entries, input, deltaVars, epochVars>>

GetTai(t) ==
    /\ call = NoCall
    /\ call' = [op |-> "get_tai", t |-> t]
    /\ res' = get_tai(entries, t)
    /\ UNCHANGED <<entries, input, deltaVars, epochVars>>

GetUt1(t) ==
    /\ call = NoCall
    /\ call' = [op |-> "get_ut1", t |-> t]
    /\ res' = get_ut1(entries, t)
    /\ UNCHANGED <<entries, input, deltaVars, epochVars>>

TaiUtcForUtc(t) ==
    /\ call = NoCall
    /\ call' = [op |-> "tai_utc_for_utc", t |-> t]
    /\ res' = Celestrak_tai_utc_for_utc(entries, t)
    /\ UNCHANGED <<entries, input, deltaVars, epochVars>>

TaiUtcForTai(t) ==
    /\ call = NoCall
    /\ call' = [op |-> "tai_utc_for_tai", t |-> t]
    /\ res' = Celestrak_tai_utc_for_tai(entries, t)
    /\ UNCHANGED <<entries, input, deltaVars, epochVars>>

Next ==
    \/ \E t \in UtcQueries : GetUtc(t)
    \/ \E t \in TaiQueries : GetTai(t)
    \/ \E t \in Ut1Queries : GetUt1(t)
    \/ \E t \in UtcQueries : TaiUtcForUtc(t)
    \/ \E t \in TaiQueries : TaiUtcForTai(t)

Spec == Init /\ [][Next]_vars

(***************************************************************************)
(* Claims about the provider's lookups                                     *)
(***************************************************************************)
\* the records of the input with the least and the greatest civil timestamp
InputFirst == CHOOSE i \in DOMAIN input :
                 \A j \in DOMAIN input : ~ Epoch_lt(input[j].time_utc, input[i].time_utc)

InputLast == CHOOSE i \in DOMAIN input :
                 \A j \in DOMAIN input : ~ Epoch_lt(input[i].time_utc, input[j].time_utc)

\* the timestamp of record e in the scale of the current call
KeyOf(e) ==
    IF call.op \in {"get_utc", "tai_utc_for_utc"} THEN e.time_utc
    ELSE IF call.op \in {"get_tai", "tai_utc_for_tai"} THEN Entry_time_tai(e)
    ELSE Entry_time_ut1(e)

\* entries[i] is the first record whose timestamp exceeds the query, and it
\* has a predecessor (1-based i)
Brackets(i) ==
    /\ i \in 2 .. Len(entries)
    /\ Epoch_gt(KeyOf(entries[i]), call.t)
    /\ \A j \in 1 .. (i - 1) : ~ Epoch_gt(KeyOf(entries[j]), call.t)

\* C1: for a provider built from records spanning [t0, tN], get_utc is
\* absent for every query < t0 and every query >= tN, and present for every
\* query strictly between t0 and tN.
C1_AbsenceOutsideSpan ==
    (call.op = "get_utc" /\ input # <<>>) =>
        LET t0 == input[InputFirst].time_utc
            tN == input[InputLast].time_utc
        IN  /\ Epoch_lt(call.t, t0) => res = None
            /\ ~ Epoch_lt(call.t, tN) => res = None
            /\ (Epoch_lt(t0, call.t) /\ Epoch_lt(call.t, tN)) => IsSome(res)

\* get_utc answered a query strictly inside the span of an unsorted input
C1_Witness ==
    /\ call.op = "get_utc"
    /\ Len(input) = 3
    /\ Epoch_lt(input[3].time_utc, input[1].time_utc)
    /\ Epoch_lt(input[InputFirst].time_utc, call.t)
    /\ Epoch_lt(call.t, input[InputLast].time_utc)
    /\ IsSome(res)

Half(a, b) == F64Div(F64Add(a, b), F64OfInt(2))

\* C2: for adjacent records at t0 < t1, get_utc at the instant exactly
\* halfway between them yields (v0 + v1) / 2 for each of x, y, ut1_utc, lod,
\* dpsi, deps, dx, dy.
C2_HalfwayIsMean ==
    call.op = "get_utc" =>
        \A i \in 1 .. (Len(entries) - 1) :
            LET a == entries[i]
                b == entries[i + 1]
            IN  (/\ Epoch_lt(a.time_utc, b.time_utc)
                 /\ Epoch_sub(call.t, a.time_utc) = Epoch_sub(b.time_utc, call.t)) =>
                    /\ IsSome(res)
                    /\ Unwrap(res).x = Half(a.x, b.x)
                    /\ Unwrap(res).y = Half(a.y, b.y)
                    /\ Unwrap(res).ut1_utc = Half(a.ut1_utc, b.ut1_utc)
                    /\ Unwrap(res).lod = Half(a.lod, b.lod)
                    /\ Unwrap(res).dpsi = Half(a.dpsi, b.dpsi)
                    /\ Unwrap(res).deps = Half(a.deps, b.deps)
                    /\ Unwrap(res).dx = Half(a.dx, b.dx)
                    /\ Unwrap(res).dy = Half(a.dy, b.dy)

\* C3: every present result of get_utc, get_tai or get_ut1 carries the leap
\* offset of the predecessor of the first record whose timestamp exceeds the
\* query; tai_utc_for_utc and tai_utc_for_tai return that value as whole
\* seconds.
C3_LeapOfEarlierRecord ==
    (call.op # "none" /\ IsSome(res)) =>
        \E i \in 2 .. Len(entries) :
            /\ Brackets(i)
            /\ call.op \in {"get_utc", "get_tai", "get_ut1"} =>
                   Unwrap(res).tai_utc = entries[i - 1].tai_utc
            /\ call.op \in {"tai_utc_for_utc", "tai_utc_for_tai"} =>
                   Unwrap(res) = [secs |-> I64(entries[i - 1].tai_utc), nanos |-> 0]

\* a lookup by atomic time fell between two records with different offsets
C3_Witness ==
    /\ call.op = "tai_utc_for_tai"
    /\ IsSome(res)
    /\ \E i \in 2 .. Len(entries) :
          /\ Brackets(i)
          /\ entries[i - 1].tai_utc # entries[i].tai_utc
          /\ I64ToInt(Unwrap(res).secs) = entries[i - 1].tai_utc

\* C4: merge is total and commutative with Predicted dominating, and the
\* flag of every lookup result is the merge of the two bracketing records'
\* flags.
C4_PredictedDominates ==
    /\ \A a \in Types, b \in Types :
          /\ Type_merge(a, b) \in Types
          /\ Type_merge(a, b) = Type_merge(b, a)
          /\ (a = "Predicted" \/ b = "Predicted") => Type_merge(a, b) = "Predicted"
          /\ (a = "Observed" /\ b = "Observed") => Type_merge(a, b) = "Observed"
    /\ (call.op \in {"get_utc", "get_tai", "get_ut1"} /\ IsSome(res)) =>
          \E i \in 2 .. Len(entries) :
              /\ Brackets(i)
              /\ Unwrap(res).data_type =
                    IF "Predicted" \in {entries[i - 1].data_type, entries[i].data_type}
                    THEN "Predicted" ELSE "Observed"

\* a lookup between an observed record and a later predicted one
C4_Witness ==
    /\ call.op = "get_utc"
    /\ IsSome(res)
    /\ \E i \in 2 .. Len(entries) :
          /\ Brackets(i)
          /\ entries[i - 1].data_type = "Observed"
          /\ entries[i].data_type = "Predicted"
    /\ Unwrap(res).data_type = "Predicted"

(***************************************************************************)
(* SpecEpoch: an Epoch named and read back, and converted between scales   *)
(***************************************************************************)
MaxDay == 1

\* the instants under test: up to MaxDay days either side of the reference
\* instant, at the edges and in the middle of a day and of a second
EpochDeltas ==
    {[secs |-> [hi |-> hi, lo |-> lo], nanos |-> nanos] :
        hi \in (-MaxDay) .. MaxDay,
        lo \in {0, 1, 2, 10, 11, 12, 43, 44, SECS_PER_DAY \div 2,
                SECS_PER_DAY - 9, SECS_PER_DAY - 8, SECS_PER_DAY - 1},
        nanos \in {0, 1, 184 * NANOS_PER_MILLI, NANOS_PER_SEC \div 2,
                   816 * NANOS_PER_MILLI, NANOS_PER_SEC - 1}}

\* the tables of the tabular providers handed to to_scale_with: no change
\* of the leap offset between the records, a step up, a step up in a vector
\* that is not sorted, a step down, and a step up between two records of the
\* same timestamp
ScaleTables ==
    {<<MkEntry(0, 10), MkEntry(1, 10), MkEntry(2, 10)>>,
     <<MkEntry(0, 10), MkEntry(1, 11), MkEntry(2, 11)>>,
     <<MkEntry(2, 11), MkEntry(0, 10), MkEntry(1, 10)>>,
     <<MkEntry(0, 11), MkEntry(1, 10), MkEntry(2, 10)>>,
     <<MkEntry(0, 10), MkEntry(1, 10), MkEntry(1, 11), MkEntry(2, 11)>>}

Providers == {EmptyProvider} \cup {CelestrakProvider(from_entries(t)) : t \in ScaleTables}

\* a tabular provider interpolates in f64: it is asked about instants whose
\* sub-second part is exact in f64
ExactInF64(d) == d.nanos \in {0, NANOS_PER_SEC \div 2}

InitEpoch ==
    /\ \E S \in Scales, d \in EpochDeltas, p \in Providers :
          /\ (p.kind = "Celestrak" => ExactInF64(d))
          /\ instant = Epoch_from_frameshift(S, d)
          /\ provider = p
    /\ call = NoCall
    /\ res = None
    /\ back = None
    /\ entries = <<>>
    /\ input = <<>>
    /\ delta = None
    /\ raw = None
    /\ rebuilt = None

\* instant.to_name()
ToName ==
    /\ call = NoCall
    /\ call' = [op |-> "to_name"]
    /\ res' = Some(Epoch_to_name(instant))
    /\ UNCHANGED <<instant, provider, back, entries, input, deltaVars>>

\* Epoch::from_name(name) with the name to_name returned
FromName ==
    /\ call.op = "to_name"
    /\ call' = [op |-> "from_name"]
    /\ back' = Some(Epoch_from_name(instant.scale, Unwrap(res)))
    /\ UNCHANGED <<instant, provider, res, entries, input, deltaVars>>

\* instant.to_julian_day()
ToJulianDay ==
    /\ call = NoCall
    /\ call' = [op |-> "to_julian_day"]
    /\ res' = Some(Epoch_to_julian_day(instant))
    /\ UNCHANGED <<instant, provider, back, entries, input, deltaVars>>

\* Epoch::from_julian_day(d) with the delta to_julian_day returned
FromJulianDay ==
    /\ call.op = "to_julian_day"
    /\ call' = [op |-> "from_julian_day"]
    /\ back' = Some(Epoch_from_julian_day(instant.scale, Unwrap(res)))
    /\ UNCHANGED <<instant, provider, res, entries, input, deltaVars>>

\* instant.to_modified_julian_day()
ToModifiedJulianDay ==
    /\ call = NoCall
    /\ call' = [op |-> "to_modified_julian_day"]
    /\ res' = Some(Epoch_to_modified_julian_day(instant))
    /\ UNCHANGED <<instant, provider, back, entries, input, deltaVars>>

\* Epoch::from_modified_julian_day(d) with the delta returned
FromModifiedJulianDay ==
    /\ call.op = "to_modified_julian_day"
    /\ call' = [op |-> "from_modified_julian_day"]
    /\ back' = Some(Epoch_from_modified_julian_day(instant.scale, Unwrap(res)))
    /\ UNCHANGED <<instant, provider, res, entries, input, deltaVars>>

\* instant.to_scale_with(&provider) to scale T (to_tai_with, to_tt_with, ...)
ToScaleWith(T) ==
    /\ call = NoCall
    /\ call' = [op |-> "to_scale_with", target |-> T]
    /\ res' = to_scale_with(instant, T, provider)
    /\ UNCHANGED <<instant, provider, back, entries, input, deltaVars>>

\* instant.to_scale() to scale T (to_tai, to_tt, ...), where it is implemented
ToScale(T) ==
    /\ call = NoCall
    /\ HasToScale(instant.scale, T)
    /\ call' = [op |-> "to_scale", target |-> T]
    /\ res' = Some(to_scale(instant, T))
    /\ UNCHANGED <<instant, provider, back, entries, input, deltaVars>>

\* the result converted back to the scale it came from, with the provider
BackWith ==
    /\ call.op = "to_scale_with"
    /\ IsSome(res)
    /\ call' = [op |-> "back_with", target |-> call.target]
    /\ back' = to_scale_with(Unwrap(res), instant.scale, provider)
    /\ UNCHANGED <<instant, provider, res, entries, input, deltaVars>>

\* the result converted back to the scale it came from, statelessly
Back ==
    /\ call.op = "to_scale"
    /\ call' = [op |-> "back", target |-> call.target]
    /\ back' = Some(to_scale(Unwrap(res), instant.scale))
    /\ UNCHANGED <<instant, provider, res, entries, input, deltaVars>>

NextEpoch ==
    \/ ToName
    \/ FromName
    \/ ToJulianDay
    \/ FromJulianDay
    \/ ToModifiedJulianDay
    \/ FromModifiedJulianDay
    \/ \E T \in Scales : ToScaleWith(T)
    \/ \E T \in Scales : ToScale(T)
    \/ BackWith
    \/ Back

SpecEpoch == InitEpoch /\ [][NextEpoch]_vars

(***************************************************************************)
(* Claims about Epoch                                                      *)
(***************************************************************************)
\* C8: naming an Epoch and reading the name back is lossless:
\* from_name(i.to_name()) = i, and from_name_delta(n, i.to_name_delta(n)) = i
\* for the Julian-day and the Modified-Julian-day reference names.
C8_NameRoundTrip ==
    call.op \in {"from_name", "from_julian_day", "from_modified_julian_day"} =>
        back = Some(instant)

\* an instant before the reference instant, with a sub-second part, went
\* through its Julian day and came back
C8_Witness ==
    /\ call.op = "from_julian_day"
    /\ I64IsNeg(instant.delta.secs)
    /\ instant.delta.nanos > 0
    /\ Unwrap(res).secs.hi > 2000000
    /\ back = Some(instant)

\* C9: converting an Epoch to its own scale is present and returns the
\* Epoch unchanged, statelessly and with any provider.
C9_SelfConversion ==
    (call.op \in {"to_scale", "to_scale_with"} /\ call.target = instant.scale) =>
        res = Some(instant)

\* a civil instant was converted to the civil scale with the empty provider
C9_Witness ==
    /\ call.op = "to_scale_with"
    /\ call.target = "UTC"
    /\ instant.scale = "UTC"
    /\ provider = EmptyProvider
    /\ res = Some(instant)

\* C10: for every Epoch<TAI> e, to_tt then to_tai returns e, and to_gps then
\* to_tai returns e; the forward hops add 32.184 s and -19 s.
C10_FixedOffsetRoundTrip ==
    (instant.scale = "TAI" /\ call.op \in {"to_scale", "back"}) =>
        /\ call.target = "TT" =>
              Unwrap(res) = Epoch_from_frameshift("TT",
                  ChronoAdd(instant.delta, [secs |-> I64(32), nanos |-> 184000000]))
        /\ call.target = "GPS" =>
              Unwrap(res) = Epoch_from_frameshift("GPS",
                  ChronoSub(instant.delta, [secs |-> I64(19), nanos |-> 0]))
        /\ (call.op = "back" /\ call.target \in {"TT", "GPS"}) =>
              back = Some(instant)

\* an atomic instant whose fraction carries into the next second on the
\* way to TT came back
C10_Witness ==
    /\ instant.scale = "TAI"
    /\ call.op = "back"
    /\ call.target = "TT"
    /\ instant.delta.nanos = 816 * NANOS_PER_MILLI
    /\ Unwrap(res).delta.nanos = 0
    /\ back = Some(instant)

(***************************************************************************)
(* CelestrakProvider::from_csv  (provider/celestrak.rs)                    *)
(*                                                                         *)
(* A file is the sequence of the items of BufRead::lines: a line read      *)
(* ([ok |-> TRUE, text |-> t]) or an io::Error ([ok |-> FALSE]).  The text *)
(* of a line is a sequence of pieces, the piece "," being the separator.   *)
(***************************************************************************)
\* the required columns, in the order from_csv looks them up and reads them
Columns ==
    <<"MJD", "X", "Y", "UT1-UTC", "LOD", "DPSI", "DEPS", "DX", "DY", "DAT", "DATA_TYPE">>

Ok(v) == [tag |-> "Ok", value |-> v]

IsOk(r) == r.tag = "Ok"

Error_Read == [tag |-> "Read"]

Error_MissingHeader == [tag |-> "MissingHeader"]

Error_MissingColumn(name) == [tag |-> "MissingColumn", col |-> name]

Error_MissingField(rowi, name) == [tag |-> "MissingField", row |-> rowi, col |-> name]

Error_BadParse(rowi, name) == [tag |-> "BadParse", row |-> rowi, col |-> name]

\* Option::ok_or_else
OkOrElse(o, e) == IF IsSome(o) THEN Ok(Unwrap(o)) ELSE e

\* Result::map_err with a constant error
MapErr(r, e) == IF IsOk(r) THEN r ELSE e

\* str::split(','): the texts between the separators; the empty line has
\* one empty field
RECURSIVE Split(_)
Split(line) ==
    IF line = <<>> THEN <<"">>
    ELSE LET rest == Split(Tail(line))
         IN  IF Head(line) = "," THEN <<"">> \o rest
             ELSE <<Head(line) \o Head(rest)>> \o Tail(rest)

\* <f64 as FromStr>::from_str on the texts that occur in the files under
\* test: decimal numbers parse, anything else (the empty text included) fails
F64Texts == {<<"0", 0, 1>>, <<"1", 1, 1>>, <<"0.5", 1, 2>>, <<"10", 10, 1>>}

parse_f64(s) ==
    IF \E p \in F64Texts : p[1] = s
    THEN Ok(LET p == CHOOSE q \in F64Texts : q[1] = s IN F64(p[2], p[3]))
    ELSE [tag |-> "ParseFloatError"]

\* <i64 as FromStr>::from_str on the same texts: a fraction does not parse
I64Texts == {<<"0", 0>>, <<"1", 1>>, <<"10", 10>>}

parse_i64(s) ==
    IF \E p \in I64Texts : p[1] = s
    THEN Ok((CHOOSE q \in I64Texts : q[1] = s)[2])
    ELSE [tag |-> "ParseIntError"]

\* impl FromStr for Type
Type_from_str(s) ==
    IF s = "O" THEN Ok("Observed")
    ELSE IF s = "P" THEN Ok("Predicted")
    ELSE [tag |-> "Err"]

\* |s: &str| s.parse(), at the type of the Entry field the column fills
parse_column(name, s) ==
    IF name = "DAT" THEN parse_i64(s)
    ELSE IF name = "DATA_TYPE" THEN Type_from_str(s)
    ELSE parse_f64(s)

\* a lookup that falls back to the first column when the name is absent
find_column_Default(header, name) ==
    Ok(IF \E i \in 1 .. Len(header) : header[i] = name
       THEN Unwrap(Position(header, LAMBDA s : s = name)) ELSE 0)

\* find_column!(header, name)
find_column(header, name) ==
    OkOrElse(Position(header, LAMBDA s : s = name), Error_MissingColumn(name))

\* a reader that counts rows from one in its errors
get_column_FromOne(rowi, row, i, name) ==
    IF i < Len(row)
    THEN MapErr(parse_column(name, At(row, i)), Error_BadParse(rowi + 1, name))
    ELSE Error_MissingField(rowi + 1, name)

\* get_column!(rowi, row, i, name)
get_column(rowi, row, i, name) ==
    IF i < Len(row)
    THEN MapErr(parse_column(name, At(row, i)), Error_BadParse(rowi, name))
    ELSE Error_MissingField(rowi, name)

\* the first error of a vector of results, if any (the `?` on each in turn)
FirstError(rs) ==
    IF \A k \in DOMAIN rs : IsOk(rs[k]) THEN None
    ELSE Some(rs[CHOOSE k \in DOMAIN rs :
                    /\ ~ IsOk(rs[k])
                    /\ \A j \in DOMAIN rs : j < k => IsOk(rs[j])])

TimeDelta_from_days(days) ==
    TimeDelta_from_seconds(F64Mul(days, F64OfInt(SECS_PER_DAY)))

\* Entry { .. } from the parsed fields, in the order of Columns
Entry_of_fields(v) ==
    [time_utc |-> Epoch_from_modified_julian_day("UTC", TimeDelta_from_days(v[1].value)),
     x |-> v[2].value,
     y |-> v[3].value,
     ut1_utc |-> v[4].value,
     lod |-> v[5].value,
     dpsi |-> v[6].value,
     deps |-> v[7].value,
     dx |-> v[8].value,
     dy |-> v[9].value,
     tai_utc |-> v[10].value,
     data_type |-> v[11].value]

\* the eleven find_column! of from_csv
find_columns(header) == [k \in DOMAIN Columns |-> find_column(header, Columns[k])]

\* the eleven get_column! of one row
get_columns(rowi, row, cols) ==
    [k \in DOMAIN Columns |-> get_column(rowi, row, cols[k].value, Columns[k])]

(***************************************************************************)
(* SpecCsv: from_csv reading a file line by line                           *)
(***************************************************************************)
MaxRows == 2

Reverse(seq) == [i \in 1 .. Len(seq) |-> seq[Len(seq) + 1 - i]]

Without(seq, names) == SelectSeq(seq, LAMBDA c : c \notin names)

\* the header lines under test: the columns in order; in reverse order after
\* a column the reader does not know; one and two columns short; empty
Headers ==
    {Columns,
     <<"EXTRA">> \o Reverse(Columns),
     Without(Columns, {"DATA_TYPE"}),
     Without(Columns, {"X", "DAT"}),
     <<"">>}

\* the data lines under test: well-formed rows, rows with one unparseable
\* field, rows that are one field short, the empty line, and a failed read
LineKinds ==
    {[kind |-> "row", mjd |-> "0", type |-> "O", bad |-> b, cut |-> c] :
        b \in {"", "X", "DAT", "DATA_TYPE"}, c \in {0, 1}}
    \cup {[kind |-> "row", mjd |-> "1", type |-> "P", bad |-> "", cut |-> 0],
          [kind |-> "empty"],
          [kind |-> "io"]}

\* the text of the field under column name in a row of kind k
FieldText(name, k) ==
    IF name = k.bad THEN (IF name = "DAT" THEN "0.5" ELSE "x")
    ELSE IF name = "MJD" THEN k.mjd
    ELSE IF name = "DAT" THEN "10"
    ELSE IF name = "DATA_TYPE" THEN k.type
    ELSE IF name = "EXTRA" THEN "x"
    ELSE "0.5"

\* the fields joined by the separator
RECURSIVE Join(_)
Join(fields) ==
    IF fields = <<>> THEN <<>>
    ELSE (IF Head(fields) = "" THEN <<>> ELSE <<Head(fields)>>)
         \o (IF Len(fields) = 1 THEN <<>> ELSE <<",">> \o Join(Tail(fields)))

Line(h, k) ==
    IF k.kind = "io" THEN [ok |-> FALSE]
    ELSE IF k.kind = "empty" THEN [ok |-> TRUE, text |-> <<>>]
    ELSE [ok |-> TRUE,
          text |-> Join([i \in 1 .. (Len(h) - k.cut) |-> FieldText(h[i], k)])]

CsvFiles ==
    {<<>>, <<[ok |-> FALSE]>>}
    \cup UNION {{<<[ok |-> TRUE, text |-> Join(h)]>> \o [i \in 1 .. n |-> Line(h, ks[i])] :
                    ks \in [1 .. n -> LineKinds]} :
                h \in Headers, n \in 0 .. MaxRows}

InitCsv ==
    /\ input \in CsvFiles
    /\ entries = <<>>
    /\ call = [op |-> "from_csv", pc |-> "header", line |-> 0, cols |-> <<>>]
    /\ res = None
    /\ delta = None
    /\ raw = None
    /\ rebuilt = None
    /\ instant = Epoch_from_frameshift("TAI", TimeDelta_default)
    /\ provider = EmptyProvider
    /\ back = None

\* return Err(e): the rows collected so far are dropped
ReturnErr(e) ==
    /\ call' = [call EXCEPT !.pc = "done"]
    /\ res' = Some(e)
    /\ entries' = <<>>

\* the header was read: the `?` after each find_column!
HeaderRead(cols) ==
    IF IsSome(FirstError(cols)) THEN ReturnErr(Unwrap(FirstError(cols)))
    ELSE /\ call' = [call EXCEPT !.pc = "rows", !.line = 1, !.cols = cols]
         /\ UNCHANGED <<res, entries>>

\* lines.next() for the header, and the eleven find_column!
ReadHeader ==
    /\ call.op = "from_csv"
    /\ call.pc = "header"
    /\ IF input = <<>> THEN ReturnErr(Error_MissingHeader)
       ELSE IF ~ input[1].ok THEN ReturnErr(Error_Read)
       ELSE HeaderRead(find_columns(Split(input[1].text)))
    /\ UNCHANGED <<input, deltaVars, epochVars>>

\* a row was split and read: the `?` after each get_column!, then the push
RowRead(fields) ==
    IF IsSome(FirstError(fields)) THEN ReturnErr(Unwrap(FirstError(fields)))
    ELSE /\ entries' = Append(entries, Entry_of_fields(fields))
         /\ call' = [call EXCEPT !.line = call.line + 1]
         /\ UNCHANGED res

\* one turn of `for line in lines`
ReadRow ==
    /\ call.op = "from_csv"
    /\ call.pc = "rows"
    /\ call.line < Len(input)
    /\ IF ~ input[call.line + 1].ok THEN ReturnErr(Error_Read)
       ELSE RowRead(get_columns(Len(entries), Split(input[call.line + 1].text), call.cols))
    /\ UNCHANGED <<input, deltaVars, epochVars>>

ReturnOk(sorted) ==
    /\ call' = [call EXCEPT !.pc = "done"]
    /\ res' = Some(Ok(sorted))
    /\ entries' = sorted

\* the loop is over: Ok(Self::from_entries(entries))
Finish ==
    /\ call.op = "from_csv"
    /\ call.pc = "rows"
    /\ call.line = Len(input)
    /\ ReturnOk(from_entries(entries))
    /\ UNCHANGED <<input, deltaVars, epochVars>>

NextCsv ==
    \/ ReadHeader
    \/ ReadRow
    \/ Finish

SpecCsv == InitCsv /\ [][NextCsv]_vars

(***************************************************************************)
(* Claims about from_csv                                                   *)
(***************************************************************************)
\* the fields of the header line of the file
HeaderFields == Split(input[1].text)

\* the required columns the header does not name
Lacking ==
    {c \in {Columns[k] : k \in DOMAIN Columns} :
        \A i \in 1 .. Len(HeaderFields) : HeaderFields[i] # c}

\* C11: from_csv on a file whose header lacks a required column fails with
\* MissingColumn naming a lacking column, the first one in lookup order,
\* before any data row is examined and whatever the data rows contain; a
\* file with no first line fails with MissingHeader.
C11_MissingColumnFirst ==
    (call.op = "from_csv" /\ call.pc # "header") =>
        /\ input = <<>> => res = Some(Error_MissingHeader)
        /\ (input # <<>> /\ input[1].ok /\ Lacking # {}) =>
              /\ call.pc = "done"
              /\ call.line = 0
              /\ IsSome(res)
              /\ Unwrap(res).tag = "MissingColumn"
              /\ Unwrap(res).col \in Lacking
              /\ \A k \in DOMAIN Columns :
                    Columns[k] = Unwrap(res).col =>
                        \A j \in 1 .. (k - 1) : Columns[j] \notin Lacking

\* a file without the DATA_TYPE column and with malformed rows was rejected
\* for the column
C11_Witness ==
    /\ call.op = "from_csv"
    /\ call.pc = "done"
    /\ Len(input) = 3
    /\ input[1].ok
    /\ Lacking = {"DATA_TYPE"}
    /\ input[2] = [ok |-> TRUE, text |-> <<>>]
    /\ res = Some(Error_MissingColumn("DATA_TYPE"))

\* the 0-based position of column c in the header
ColumnAt(c) == (CHOOSE i \in 1 .. Len(HeaderFields) : HeaderFields[i] = c) - 1

\* text t is acceptable in column c: a decimal number, a whole number in
\* DAT, O or P in DATA_TYPE
Acceptable(c, t) ==
    IF c = "DAT" THEN t \in {"0", "1", "10"}
    ELSE IF c = "DATA_TYPE" THEN t \in {"O", "P"}
    ELSE t \in {"0", "1", "0.5", "10"}

\* what is wrong with column c in the fields of a row: "missing", "bad" or ""
Defect(row, c) ==
    IF ColumnAt(c) >= Len(row) THEN "missing"
    ELSE IF ~ Acceptable(c, row[ColumnAt(c) + 1]) THEN "bad"
    ELSE ""

\* data row r (0-based) of the file has a missing or unparseable field
Malformed(r) ==
    \E k \in DOMAIN Columns : Defect(Split(input[r + 2].text), Columns[k]) # ""

\* C12: with a valid header and a readable file, if some data row has a
\* missing field or a field that does not parse, from_csv returns
\* MissingField or BadParse with the 0-based index of the first such row and
\* the name of a column that is missing or unparseable in it, and no provider.
C12_RowErrorLocated ==
    (/\ call.op = "from_csv"
     /\ call.pc = "done"
     /\ input # <<>>
     /\ \A i \in 1 .. Len(input) : input[i].ok
     /\ Lacking = {}
     /\ \E r \in 0 .. (Len(input) - 2) : Malformed(r)) =>
        LET first == CHOOSE r \in 0 .. (Len(input) - 2) :
                        /\ Malformed(r)
                        /\ \A q \in 0 .. (r - 1) : ~ Malformed(q)
            e == Unwrap(res)
        IN  /\ IsSome(res)
            /\ e.tag \in {"MissingField", "BadParse"}
            /\ e.row = first
            /\ e.tag = "MissingField" =>
                  Defect(Split(input[first + 2].text), e.col) = "missing"
            /\ e.tag = "BadParse" =>
                  Defect(Split(input[first + 2].text), e.col) = "bad"
            /\ entries = <<>>

\* a well-formed row was followed by a row that is one field short
C12_Witness ==
    /\ call.op = "from_csv"
    /\ call.pc = "done"
    /\ Len(input) = 3
    /\ \A i \in 1 .. 3 : input[i].ok
    /\ Lacking = {}
    /\ ~ Malformed(0)
    /\ Malformed(1)
    /\ Unwrap(res).tag = "MissingField"
    /\ Unwrap(res).row = 1

(***************************************************************************)
(* Claims about the order of the table                                     *)
(***************************************************************************)
\* the rearrangements of the input vector
InputOrders ==
    {[i \in DOMAIN input |-> input[f[i]]] :
        f \in {g \in [DOMAIN input -> DOMAIN input] :
                  \A i, j \in DOMAIN input : g[i] = g[j] => i = j}}

\* the lookup of the current call on a table es
LookupIn(es) ==
    IF call.op = "get_utc" THEN get_utc(es, call.t)
    ELSE IF call.op = "get_tai" THEN get_tai(es, call.t)
    ELSE IF call.op = "get_ut1" THEN get_ut1(es, call.t)
    ELSE IF call.op = "tai_utc_for_utc" THEN Celestrak_tai_utc_for_utc(es, call.t)
    ELSE Celestrak_tai_utc_for_tai(es, call.t)

\* C13: after from_entries the records are in ascending order of time_utc
\* and are a rearrangement of the input; when the input timestamps are
\* distinct, every rearrangement of the input gives the same table and the
\* same lookup result.
C13_SortedPermutation ==
    /\ \A i, j \in DOMAIN entries :
          i < j => ~ Epoch_lt(entries[j].time_utc, entries[i].time_utc)
    /\ Len(entries) = Len(input)
    /\ \A e \in EntrySet :
          Cardinality({i \in DOMAIN entries : entries[i] = e})
              = Cardinality({i \in DOMAIN input : input[i] = e})
    /\ (\A i, j \in DOMAIN input :
            input[i].time_utc = input[j].time_utc => i = j) =>
          \A perm \in InputOrders :
              /\ from_entries(perm) = entries
              /\ call.op # "none" => LookupIn(from_entries(perm)) = res

\* three records given latest first were put in ascending order, and a
\* lookup between them was answered
C13_Witness ==
    /\ Len(input) = 3
    /\ Epoch_lt(input[3].time_utc, input[2].time_utc)
    /\ Epoch_lt(input[2].time_utc, input[1].time_utc)
    /\ entries = <<input[3], input[2], input[1]>>
    /\ call.op = "get_utc"
    /\ IsSome(res)

(***************************************************************************)
(* Claims about conversions through the hub                                *)
(***************************************************************************)
\* scale S minus TAI, for the scales at a fixed offset from TAI
FixedOffset(S) ==
    IF S = "TT" THEN [secs |-> I64(32), nanos |-> 184000000]
    ELSE IF S = "GPS" THEN [secs |-> I64(-19), nanos |-> 0]
    ELSE [secs |-> I64(0), nanos |-> 0]

\* C14: a conversion with a provider between UTC and TT or GPS is absent
\* exactly when the provider has no leap offset for the hop between UTC and
\* TAI, and otherwise is the two hops one after the other; with
\* EmptyProvider every conversion between UTC and another scale is absent.
C14_ThroughHub ==
    call.op = "to_scale_with" =>
        /\ (instant.scale = "UTC" /\ call.target \in {"TT", "GPS"}) =>
              LET o == Provider_tai_utc_for_utc(provider, instant)
              IN  /\ res = None <=> o = None
                  /\ o # None =>
                        res = Some([scale |-> call.target,
                                    delta |-> ChronoAdd(ChronoAdd(instant.delta, Unwrap(o)),
                                                        FixedOffset(call.target))])
        /\ (instant.scale \in {"TT", "GPS"} /\ call.target = "UTC") =>
              LET middle == [scale |-> "TAI",
                             delta |-> ChronoSub(instant.delta, FixedOffset(instant.scale))]
                  o == Provider_tai_utc_for_tai(provider, middle)
              IN  /\ res = None <=> o = None
                  /\ o # None =>
                        res = Some([scale |-> "UTC",
                                    delta |-> ChronoSub(middle.delta, Unwrap(o))])
        /\ (provider = EmptyProvider /\ ((instant.scale = "UTC") # (call.target = "UTC"))) =>
              res = None

\* a satellite-scale instant inside the table was converted to UTC
C14_Witness ==
    /\ call.op = "to_scale_with"
    /\ instant.scale = "GPS"
    /\ call.target = "UTC"
    /\ provider.kind = "Celestrak"
    /\ IsSome(res)
    /\ Unwrap(res).scale = "UTC"

\* C15: for every pair of scales with a stateless conversion (a scale and
\* itself, TAI and TT, TAI and GPS, TT and GPS), to_scale_with is present
\* and the same for every provider, and to_scale returns that result.
C15_ProviderIgnored ==
    (call.op \in {"to_scale", "to_scale_with"}
     /\ HasToScale(instant.scale, call.target)) =>
        /\ IsSome(res)
        /\ \A p \in Providers : to_scale_with(instant, call.target, p) = res
        /\ res = Some(to_scale(instant, call.target))

\* an instant was taken from TT to GPS with a tabular provider
C15_Witness ==
    /\ call.op = "to_scale_with"
    /\ instant.scale = "TT"
    /\ call.target = "GPS"
    /\ provider.kind = "Celestrak"
    /\ IsSome(res)
    /\ Unwrap(res).scale = "GPS"
    /\ res = to_scale_with(instant, "GPS", EmptyProvider)

(***************************************************************************)
(* Claims about lookups by atomic time                                     *)
(***************************************************************************)
\* (1 - f) * a + f * b
Blend(f, a, b) == F64Add(F64Mul(F64Sub(F64OfInt(1), f), a), F64Mul(f, b))

\* C16: a present result of get_tai has its continuously varying fields
\* interpolated with the fraction (t - T0) / (T1 - T0), where T0 and T1 are
\* the timestamps of the two bracketing records in TAI (time_utc plus the
\* record's tai_utc).
C16_FractionInAtomicScale ==
    (call.op = "get_tai" /\ IsSome(res)) =>
        \E i \in 2 .. Len(entries) :
            /\ Brackets(i)
            /\ LET a == entries[i - 1]
                   b == entries[i]
                   f == F64Div(TimeDelta_to_seconds(Epoch_sub(call.t, Entry_time_tai(a))),
                               TimeDelta_to_seconds(Epoch_sub(Entry_time_tai(b),
                                                              Entry_time_tai(a))))
               IN  /\ Unwrap(res).x = Blend(f, a.x, b.x)
                   /\ Unwrap(res).y = Blend(f, a.y, b.y)
                   /\ Unwrap(res).ut1_utc = Blend(f, a.ut1_utc, b.ut1_utc)
                   /\ Unwrap(res).lod = Blend(f, a.lod, b.lod)
                   /\ Unwrap(res).dpsi = Blend(f, a.dpsi, b.dpsi)
                   /\ Unwrap(res).deps = Blend(f, a.deps, b.deps)
                   /\ Unwrap(res).dx = Blend(f, a.dx, b.dx)
                   /\ Unwrap(res).dy = Blend(f, a.dy, b.dy)

(***************************************************************************)
(* Claims about the round trips through a tabular provider                 *)
(***************************************************************************)
\* the leap offsets of the table never decrease from a record to the next
NonDecreasingOffsets(es) ==
    \A i \in 1 .. (Len(es) - 1) : es[i].tai_utc <= es[i + 1].tai_utc

\* a civil instant was converted to TAI with a tabular provider, and the
\* result was converted back with the same provider
CivilRoundTrip ==
    /\ call.op = "back_with"
    /\ call.target = "TAI"
    /\ instant.scale = "UTC"
    /\ provider.kind = "Celestrak"

AtomicRoundTrip ==
    /\ call.op = "back_with"
    /\ call.target = "UTC"
    /\ instant.scale = "TAI"
    /\ provider.kind = "Celestrak"

\* provider.entries[i] is the first record whose TAI timestamp exceeds the
\* instant, and it has a predecessor (1-based i)
AtomicBrackets(i) ==
    /\ i \in 2 .. Len(provider.entries)
    /\ Epoch_gt(Entry_time_tai(provider.entries[i]), instant)
    /\ \A j \in 1 .. (i - 1) :
          ~ Epoch_gt(Entry_time_tai(provider.entries[j]), instant)

\* the instant lies in the change of the leap offset between its two
\* bracketing records: at or after the later record's civil timestamp plus
\* the earlier record's offset
WithinOffsetChange ==
    \E i \in 2 .. Len(provider.entries) :
        /\ AtomicBrackets(i)
        /\ ~ Epoch_lt(instant,
                      Epoch_add(Epoch_transmute(provider.entries[i].time_utc, "TAI"),
                                time_delta(provider.entries[i - 1].tai_utc, 0)))

C19_DivisorNeverZero ==
    (call.op \in {"get_utc", "get_tai", "get_ut1"} /\ IsSome(res)) =>
        \A i \in 2 .. Len(entries) :
            Brackets(i) =>
                TimeDelta_to_seconds(Epoch_sub(entries[i].time_utc,
                                               entries[i - 1].time_utc))
                    # F64OfInt(0)

=============================================================================
